---------------------------- MODULE Spec2Model ----------------------------
(***************************************************************************)
(* Model of zmwangx.pbar (ProgressText, ProgressBar), of the two           *)
(* formatters it is built on, zmwangx.humansize.humansize and              *)
(* zmwangx.humantime.humantime, and of the hashing loop of zmwangx.hash    *)
(* that drives a ProgressBar.                                              *)
(*                                                                         *)
(* Conventions.                                                            *)
(*  - Text is a sequence of one-character strings.                         *)
(*  - Time is an integer number of milliseconds; each call reads the clock *)
(*    once (every time.time() of one call returns the same instant).       *)
(*  - A non-integer number (a speed, a duration) is an exact fraction      *)
(*    num/den with den > 0; sizes are in bytes, speeds in bytes/second.    *)
(*  - An object is a function from the names of the attributes it has to   *)
(*    their values; `del` removes a name from the domain.                  *)
(***************************************************************************)
EXTENDS Integers, Sequences, FiniteSets, TLC

VARIABLES
    kind,    \* "none": no reporter yet; "text": a ProgressText; "bar": a ProgressBar
    self,    \* the reporter object
    now,     \* the clock, in milliseconds
    call,    \* the call that has just returned: its name and arguments
    ret,     \* what that call did: exception, writes, producer invocations
    fed,     \* history: preprocessed plus the chunk sizes passed to update
    drawn,   \* history: the time of the reporter's last write to the terminal
    frame    \* the call of zmwangx.hash._fileobj_hash in progress, if any

vars == <<kind, self, now, call, ret, fed, drawn, frame>>

-----------------------------------------------------------------------------
(* Bounds of the model.                                                    *)

MaxTotal == 2
MaxChunk == 2
MaxTicks == 2
SizeUnit == 700
TickMs == 500

-----------------------------------------------------------------------------
(* Text helpers: what Python's %d, %02d, {:>7s} and str * int do.          *)

Digits == <<"0", "1", "2", "3", "4", "5", "6", "7", "8", "9">>

Max(a, b) == IF a >= b THEN a ELSE b

Min(a, b) == IF a <= b THEN a ELSE b

RECURSIVE Pow(_, _)
Pow(b, e) == IF e = 0 THEN 1 ELSE b * Pow(b, e - 1)

\* str * n: n copies of the one-character string c, "" for n <= 0
Rep(c, n) == [i \in 1..n |-> c]

\* "%d" % n for an integer n
RECURSIVE Str(_)
Str(n) ==
    IF n < 0 THEN <<"-">> \o Str(0 - n)
    ELSE IF n < 10 THEN <<Digits[n + 1]>>
    ELSE Str(n \div 10) \o <<Digits[(n % 10) + 1]>>

\* "%0<w>d" % n for n >= 0
ZeroPad(n, w) == Rep("0", w - Len(Str(n))) \o Str(n)

\* "{:><w>s}".format(s)
RightAlign(s, w) == Rep(" ", w - Len(s)) \o s

\* "%.<nd>f" % (scaled / 10^nd) for an integer scaled >= 0
Fixed(scaled, nd) ==
    IF nd = 0 THEN Str(scaled)
    ELSE Str(scaled \div Pow(10, nd)) \o <<".">>
         \o ZeroPad(scaled % Pow(10, nd), nd)

\* ceiling and floor of num / den, for den > 0
CeilDiv(num, den) == 0 - ((0 - num) \div den)

FloorDiv(num, den) == num \div den

\* Python 3 round(num / den): to the nearest integer, a tie to the even one
RoundHalfEven(num, den) ==
    LET q == num \div den
        r == num % den
    IN  IF 2 * r < den THEN q
        ELSE IF 2 * r > den THEN q + 1
        ELSE IF q % 2 = 0 THEN q ELSE q + 1

-----------------------------------------------------------------------------
(* zmwangx.humansize                                                       *)

\* round_up(number, ndigits) of number = num/den >= 0, as the integer
\* number of units of 10^-ndigits (Decimal.quantize with ROUND_UP)
round_up(num, den, ndigits) == CeilDiv(num * Pow(10, ndigits), den)

\* _PREFIXES, as text
PREFIXES ==
    [x \in {"iec-i", "iec", "si"} |->
        IF x = "iec-i"
        THEN << <<"K", "i">>, <<"M", "i">>, <<"G", "i">>, <<"T", "i">>,
                <<"P", "i">>, <<"E", "i">>, <<"Z", "i">>, <<"Y", "i">> >>
        ELSE << <<"K">>, <<"M">>, <<"G">>, <<"T">>,
                <<"P">>, <<"E">>, <<"Z">>, <<"Y">> >>]

Ok(v) == [err |-> "none", val |-> v]

Raise(e) == [err |-> e, val |-> <<>>]

\* the multiplier of a prefix system
Multiplier(prefix) == IF prefix = "si" THEN 1000 ELSE 1024

\* The `for unitprefix in _PREFIXES[prefix]` loop of humansize, entered at
\* the i-th label with size = num/den; the code's `size = multiplier;
\* continue` re-enters it at the next label with size = multiplier.
RECURSIVE humansize_loop(_, _, _, _, _, _, _)
humansize_loop(num, den, i, prefix, unit, connection, numfmt) ==
    LET multiplier == Multiplier(prefix)
        labels == PREFIXES[prefix]
    IN  IF i > Len(labels)
        THEN \* use the largest unit
             Fixed(round_up(num, den, 1), 1) \o connection
             \o labels[Len(labels)] \o unit
        ELSE LET d == den * multiplier      \* size /= multiplier
                 fullunit == connection \o labels[i] \o unit
             IN  IF num < multiplier * d
                 THEN IF ~numfmt
                      THEN IF round_up(num, d, 2) < 10 * 100
                           THEN Fixed(round_up(num, d, 2), 2) \o fullunit
                           ELSE IF round_up(num, d, 1) < 100 * 10
                           THEN Fixed(round_up(num, d, 1), 1) \o fullunit
                           ELSE IF round_up(num, d, 0) = multiplier
                           THEN humansize_loop(multiplier, 1, i + 1, prefix,
                                               unit, connection, numfmt)
                           ELSE Fixed(round_up(num, d, 0), 0) \o fullunit
                      ELSE IF round_up(num, d, 1) < 10 * 10
                           THEN Fixed(round_up(num, d, 1), 1) \o fullunit
                           ELSE IF round_up(num, d, 0) = multiplier
                           THEN humansize_loop(multiplier, 1, i + 1, prefix,
                                               unit, connection, numfmt)
                           ELSE Fixed(round_up(num, d, 0), 0) \o fullunit
                 ELSE humansize_loop(num, d, i + 1, prefix, unit,
                                     connection, numfmt)

\* humansize(size, prefix, unit, space, numfmt) for size = num/den
humansize(num, den, prefix, unit, space, numfmt) ==
    IF num < 0 THEN Raise("ValueError")
    ELSE IF prefix \notin {"iec-i", "iec", "si"} THEN Raise("ValueError")
    ELSE LET connection == IF space THEN <<" ">> ELSE <<>>
             multiplier == Multiplier(prefix)
         IN  IF num < multiplier * den
             THEN Ok(Str(num \div den) \o connection \o unit)
             ELSE Ok(humansize_loop(num, den, 1, prefix, unit, connection,
                                    numfmt))

\* humansize(size) as pbar calls it: every option at its default
humansize_default(num, den) ==
    humansize(num, den, "iec-i", <<"B">>, FALSE, FALSE)

-----------------------------------------------------------------------------
(* zmwangx.humantime                                                       *)

\* humantime with the minutes not reduced modulo 60
humantime_minutes_unwrapped(num, den, one_hour_digit) ==
    IF num < 0 THEN Raise("ValueError")
    ELSE Ok((IF one_hour_digit THEN ZeroPad(FloorDiv(num, den) \div 3600, 1)
             ELSE ZeroPad(FloorDiv(num, den) \div 3600, 2))
            \o <<":">> \o ZeroPad(FloorDiv(num, den) \div 60, 2)
            \o <<":">>
            \o ZeroPad(RoundHalfEven(
                           num - (FloorDiv(num, den) \div 60) * 60 * den,
                           den), 2))

\* humantime with one_hour_digit keeping the last digit of the hours only
humantime_hours_cut(num, den, one_hour_digit) ==
    IF num < 0 THEN Raise("ValueError")
    ELSE Ok((IF one_hour_digit
             THEN ZeroPad((FloorDiv(num, den) \div 3600) % 10, 1)
             ELSE ZeroPad(FloorDiv(num, den) \div 3600, 2))
            \o <<":">> \o ZeroPad((FloorDiv(num, den) \div 60) % 60, 2)
            \o <<":">>
            \o ZeroPad(RoundHalfEven(
                           num - (FloorDiv(num, den) \div 60) * 60 * den,
                           den), 2))

\* humantime(seconds, ndigits=0, one_hour_digit) for seconds = num/den
humantime(num, den, one_hour_digit) ==
    IF num < 0 THEN Raise("ValueError")
    ELSE LET isec == FloorDiv(num, den)              \* int(seconds)
             hh == isec \div 3600
             mm == (isec \div 60) % 60
             \* ss = seconds - (int(seconds) // 60) * 60, over den
             ssnum == num - (isec \div 60) * 60 * den
             hh_str == IF one_hour_digit THEN ZeroPad(hh, 1)
                       ELSE ZeroPad(hh, 2)
             mm_str == ZeroPad(mm, 2)
             ss_str == ZeroPad(RoundHalfEven(ssnum, den), 2)
         IN  Ok(hh_str \o <<":">> \o mm_str \o <<":">> \o ss_str)

-----------------------------------------------------------------------------
(* decimal.Decimal as humansize uses it on an integer size of any length:  *)
(* a nonnegative Decimal is [c |-> coefficient, e |-> exponent], of value   *)
(* c * 10^e, the coefficient a sequence of digits 0..9, most significant   *)
(* first.  Division rounds to the context precision, half to even;         *)
(* quantize(..., rounding=ROUND_UP) is exact.                              *)

\* the context precision of decimal ("defaults to 28 decimal places")
DecimalPrec == 28

\* the digits of a positive integer, <<>> for zero
RECURSIVE IntDigits(_)
IntDigits(n) == IF n = 0 THEN <<>> ELSE IntDigits(n \div 10) \o <<n % 10>>

\* the digits of a nonnegative integer
DigitsOf(n) == IF n = 0 THEN <<0>> ELSE IntDigits(n)

\* the integer written by a short sequence of digits
RECURSIVE ToInt(_)
ToInt(ds) ==
    IF ds = <<>> THEN 0
    ELSE 10 * ToInt(SubSeq(ds, 1, Len(ds) - 1)) + ds[Len(ds)]

\* a sequence of digits without its leading zeros; zero is <<0>>
RECURSIVE Strip(_)
Strip(ds) ==
    IF ds = <<>> THEN <<0>>
    ELSE IF Len(ds) > 1 /\ ds[1] = 0 THEN Strip(Tail(ds))
    ELSE ds

AllZero(ds) == \A i \in 1..Len(ds) : ds[i] = 0

\* the integer written by the last two digits of ds
LastTwo(ds) ==
    IF ds = <<>> THEN 0
    ELSE IF Len(ds) = 1 THEN ds[1]
    ELSE 10 * ds[Len(ds) - 1] + ds[Len(ds)]

\* the digits of ds * k + carry, for small k and carry, two digits at a
\* time: the last two digits after the digits of what is carried over them
RECURSIVE MulAdd(_, _, _)
MulAdd(ds, k, carry) ==
    IF carry = 0 /\ ds = <<>> THEN <<>>
    ELSE IF Len(ds) = 1 \/ (ds = <<>> /\ carry < 10)
    THEN IntDigits((LastTwo(ds) * k + carry) \div 10)
         \o <<(LastTwo(ds) * k + carry) % 10>>
    ELSE MulAdd(SubSeq(ds, 1, Len(ds) - 2), k,
                (LastTwo(ds) * k + carry) \div 100)
         \o <<((LastTwo(ds) * k + carry) \div 10) % 10,
              (LastTwo(ds) * k + carry) % 10>>

\* Decimal(n) for an integer n given by its digits: exact
Decimal(ds) == [c |-> Strip(ds), e |-> 0]

\* the context's rounding of the exact value c * 10^e to DecimalPrec
\* significant digits, ROUND_HALF_EVEN
DecimalRound(c, e) ==
    IF Len(c) <= DecimalPrec THEN [c |-> c, e |-> e]
    ELSE [c |-> IF \/ c[DecimalPrec + 1] > 5
                   \/ /\ c[DecimalPrec + 1] = 5
                      /\ \/ ~AllZero(SubSeq(c, DecimalPrec + 2, Len(c)))
                         \/ c[DecimalPrec] % 2 = 1
                THEN MulAdd(SubSeq(c, 1, DecimalPrec), 1, 1)
                ELSE SubSeq(c, 1, DecimalPrec),
          e |-> e + Len(c) - DecimalPrec]

\* x / multiplier in the context: the exact quotient (1/1000 = 10^-3,
\* 1/1024 = 9765625 * 10^-10), then rounded to the precision
DecimalDiv(x, multiplier) ==
    IF multiplier = 1000
    THEN DecimalRound(Strip(x.c), x.e - 3)
    ELSE DecimalRound(Strip(MulAdd(x.c, 9765625, 0)), x.e - 10)

\* the integer part of x when it has at most four digits, 10000 otherwise
DecimalIntPart(x) ==
    IF AllZero(x.c) \/ Len(Strip(x.c)) + x.e <= 0 THEN 0
    ELSE IF Len(Strip(x.c)) + x.e > 4 THEN 10000
    ELSE IF x.e >= 0 THEN ToInt(Strip(x.c) \o [i \in 1..x.e |-> 0])
    ELSE ToInt(SubSeq(Strip(x.c), 1, Len(Strip(x.c)) + x.e))

\* x <= multiplier for x < multiplier: the scan stops one prefix early on a
\* quotient equal to the multiplier
DecimalLess_or_equal(x, multiplier) == DecimalIntPart(x) <= multiplier

\* x < multiplier, for an integer multiplier of at most four digits
DecimalLess(x, multiplier) == DecimalIntPart(x) < multiplier

\* number.quantize(Decimal(10) ** (-ndigits), rounding=ROUND_UP), as the
\* digits of the integer number of units of 10^-ndigits
DecimalRoundUp(x, ndigits) ==
    IF x.e + ndigits >= 0
    THEN Strip(x.c \o [i \in 1..(x.e + ndigits) |-> 0])
    ELSE IF 0 - (x.e + ndigits) >= Len(x.c)
    THEN (IF AllZero(x.c) THEN <<0>> ELSE <<1>>)
    ELSE IF AllZero(SubSeq(x.c, Len(x.c) + x.e + ndigits + 1, Len(x.c)))
    THEN Strip(SubSeq(x.c, 1, Len(x.c) + x.e + ndigits))
    ELSE Strip(MulAdd(SubSeq(x.c, 1, Len(x.c) + x.e + ndigits), 1, 1))

\* "%.<nd>f" % (scaled / 10^nd) for scaled given by its digits
FixedDigits(scaled, nd) ==
    LET ds == [i \in 1..(nd + 1 - Len(scaled)) |-> 0] \o scaled
        ch == [i \in 1..Len(ds) |-> Digits[ds[i] + 1]]
    IN  IF nd = 0 THEN ch
        ELSE SubSeq(ch, 1, Len(ch) - nd) \o <<".">>
             \o SubSeq(ch, Len(ch) - nd + 1, Len(ch))

\* what humansize prints: the k-th prefix (0: none) after the number
\* scaled / 10^nd written with nd fractional digits
Picked(k, nd, scaled) == [k |-> k, nd |-> nd, scaled |-> scaled]

RECURSIVE humansize_decimal_loop(_, _, _, _)

\* humansize's choice of format with no escalation: a whole number equal to
\* the multiplier is emitted at the i-th prefix
humansize_decimal_pick_no_escalation(r2, r1, r0, i, prefix, numfmt) ==
    IF ~numfmt
    THEN IF r2 < 10 * 100 THEN Picked(i, 2, DigitsOf(r2))
         ELSE IF r1 < 100 * 10 THEN Picked(i, 1, DigitsOf(r1))
         ELSE Picked(i, 0, DigitsOf(r0))
    ELSE IF r1 < 10 * 10 THEN Picked(i, 1, DigitsOf(r1))
         ELSE Picked(i, 0, DigitsOf(r0))

\* humansize's choice of format with the coreutils mode keeping one
\* fractional digit below 100, as the default mode does, instead of below 10
humansize_decimal_pick_one_digit_below_100(r2, r1, r0, i, prefix, numfmt) ==
    IF ~numfmt /\ r2 < 10 * 100 THEN Picked(i, 2, DigitsOf(r2))
    ELSE IF r1 < 100 * 10 THEN Picked(i, 1, DigitsOf(r1))
    ELSE IF r0 = Multiplier(prefix)
    THEN humansize_decimal_loop(Decimal(DigitsOf(Multiplier(prefix))),
                                i + 1, prefix, numfmt)
    ELSE Picked(i, 0, DigitsOf(r0))

\* humansize's choice of format with the coreutils rule applied in both
\* modes, the numfmt flag ignored
humansize_decimal_pick_always_numfmt(r2, r1, r0, i, prefix, numfmt) ==
    IF r1 < 10 * 10 THEN Picked(i, 1, DigitsOf(r1))
    ELSE IF r0 = Multiplier(prefix)
    THEN humansize_decimal_loop(Decimal(DigitsOf(Multiplier(prefix))),
                                i + 1, prefix, numfmt)
    ELSE Picked(i, 0, DigitsOf(r0))

\* humansize's choice of format with the escalation staying at the i-th
\* prefix: a size that rounds up to the multiplier is printed as 1.00 (1.0)
\* with the prefix it had
humansize_decimal_pick_escalates_in_place(r2, r1, r0, i, prefix, numfmt) ==
    IF ~numfmt
    THEN IF r2 < 10 * 100 THEN Picked(i, 2, DigitsOf(r2))
         ELSE IF r1 < 100 * 10 THEN Picked(i, 1, DigitsOf(r1))
         ELSE IF r0 = Multiplier(prefix) THEN Picked(i, 2, <<1, 0, 0>>)
         ELSE Picked(i, 0, DigitsOf(r0))
    ELSE IF r1 < 10 * 10 THEN Picked(i, 1, DigitsOf(r1))
         ELSE IF r0 = Multiplier(prefix) THEN Picked(i, 1, <<1, 0>>)
         ELSE Picked(i, 0, DigitsOf(r0))

\* lines 131-157 of humansize: size is below the multiplier at the i-th
\* prefix and r2, r1, r0 are round_up(size, 2), (size, 1) and (size, 0) in
\* units of 10^-2, 10^-1 and 1
humansize_decimal_pick(r2, r1, r0, i, prefix, numfmt) ==
    IF ~numfmt
    THEN IF r2 < 10 * 100 THEN Picked(i, 2, DigitsOf(r2))
         ELSE IF r1 < 100 * 10 THEN Picked(i, 1, DigitsOf(r1))
         ELSE IF r0 = Multiplier(prefix)
         THEN humansize_decimal_loop(Decimal(DigitsOf(Multiplier(prefix))),
                                     i + 1, prefix, numfmt)
         ELSE Picked(i, 0, DigitsOf(r0))
    ELSE IF r1 < 10 * 10 THEN Picked(i, 1, DigitsOf(r1))
         ELSE IF r0 = Multiplier(prefix)
         THEN humansize_decimal_loop(Decimal(DigitsOf(Multiplier(prefix))),
                                     i + 1, prefix, numfmt)
         ELSE Picked(i, 0, DigitsOf(r0))

\* lines 129-157 of humansize: the body of the loop after `size /= multiplier`
humansize_decimal_at(size, i, prefix, numfmt) ==
    IF DecimalLess(size, Multiplier(prefix))
    THEN humansize_decimal_pick(ToInt(DecimalRoundUp(size, 2)),
                                ToInt(DecimalRoundUp(size, 1)),
                                ToInt(DecimalRoundUp(size, 0)),
                                i, prefix, numfmt)
    ELSE humansize_decimal_loop(size, i + 1, prefix, numfmt)

\* the `for unitprefix in _PREFIXES[prefix]` loop of humansize entered at
\* the i-th prefix, and the `use the largest unit` return after it
humansize_decimal_loop(size, i, prefix, numfmt) ==
    IF i > Len(PREFIXES[prefix])
    THEN Picked(Len(PREFIXES[prefix]), 1, DecimalRoundUp(size, 1))
    ELSE humansize_decimal_at(DecimalDiv(size, Multiplier(prefix)), i,
                              prefix, numfmt)

\* the index of the prefix at which the loop of humansize, entered at the
\* i-th prefix, first finds the size below the multiplier, before it looks
\* at any rounding; the last index when it finds none
RECURSIVE humansize_decimal_scan(_, _, _)
humansize_decimal_scan(size, i, prefix) ==
    IF i > Len(PREFIXES[prefix]) THEN Len(PREFIXES[prefix])
    ELSE IF DecimalLess(DecimalDiv(size, Multiplier(prefix)),
                        Multiplier(prefix))
    THEN i
    ELSE humansize_decimal_scan(DecimalDiv(size, Multiplier(prefix)), i + 1,
                                prefix)

\* the string humansize returns for what it picked
humansize_text(p, prefix, unit, space) ==
    FixedDigits(p.scaled, p.nd)
    \o (IF space THEN <<" ">> ELSE <<>>)
    \o (IF p.k = 0 THEN <<>> ELSE PREFIXES[prefix][p.k])
    \o unit

\* what humansize picks for the nonnegative integer of digits ds
humansize_picked(ds, prefix, numfmt) ==
    IF DecimalLess(Decimal(ds), Multiplier(prefix))
    THEN Picked(0, 0, Strip(ds))
    ELSE humansize_decimal_loop(Decimal(ds), 1, prefix, numfmt)

\* humansize(size, prefix, unit, space, numfmt) for a nonnegative integer
\* size of any length, given by its digits ds
humansize_decimal(ds, prefix, unit, space, numfmt) ==
    IF prefix \notin {"iec-i", "iec", "si"} THEN Raise("ValueError")
    ELSE Ok(humansize_text(humansize_picked(ds, prefix, numfmt), prefix,
                           unit, space))

-----------------------------------------------------------------------------

(* Objects and the outcome of a call.                                      *)

NoObj == <<>>

HasAttr(obj, a) == a \in DOMAIN obj

\* obj.a = v
SetAttr(obj, a, v) ==
    [x \in (DOMAIN obj) \cup {a} |-> IF x = a THEN v ELSE obj[x]]

\* del obj.a
DelAttr(obj, a) == [x \in (DOMAIN obj) \ {a} |-> obj[x]]

\* The outcome of a call: the object as the call leaves it, the exception
\* it raised ("none" if it returned), the chunks it wrote to sys.stderr in
\* order, the number of times it invoked the content producer, the six
\* fields of the bar line it rendered last (<<>> if it rendered none).
Outcome(obj, err, wrote, invoked, fields) ==
    [obj |-> obj, err |-> err, wrote |-> wrote, invoked |-> invoked,
     fields |-> fields]

\* the lower bound of an elapsed time: 0.001 s, in milliseconds
MinElapsed == 1

CR == "\r"

EL == "ESC[K"

NL == "\n"

\* the fallback terminal width, the reservation for the numeric fields, the
\* narrowest terminal that gets a computed bar, and the fallback bar length
DefaultColumns == 80

ReservedColumns == 48

MinColumns == 58

FallbackBarlen == 10

\* os.get_terminal_size() raising (no terminal, or Python 2)
NoTerminal == 0

-----------------------------------------------------------------------------
(* zmwangx.pbar: content producers                                         *)

StrContent(t) == [tag |-> "str", text |-> t]

FnContent(t) == [tag |-> "fn", text |-> t]

BarContent == [tag |-> "_generate_bar", text |-> <<>>]

FinishBarContent == [tag |-> "_generate_finish_bar", text |-> <<>>]

\* ProgressBar._FORMAT_STRING.format(...)
FormatBar(f) ==
    RightAlign(f.processed_s, 7) \o <<" ">> \o f.elapsed_s \o <<" ", "[">>
    \o RightAlign(f.speed_s, 7) \o <<"/", "s", "]", " ", "[">> \o f.bar_s
    \o <<"]", " ">> \o RightAlign(f.percent_s, 3) \o <<"%", " ">> \o f.eta_s

Fields(processed_s, elapsed_s, speed_s, bar_s, percent_s, eta_s) ==
    [processed_s |-> processed_s, elapsed_s |-> elapsed_s,
     speed_s |-> speed_s, bar_s |-> bar_s, percent_s |-> percent_s,
     eta_s |-> eta_s]

\* ProgressText._humantime / ProgressBar._humantime of ms milliseconds
pbar_humantime(ms) == humantime(ms, 1000, TRUE)

\* The speed of the "instant" branch of _generate_bar, in bytes over
\* milliseconds; the branch raises before it computes it.
InstantSpeed(obj, elapsed_since_last) ==
    <<Max(1000 * (obj.processed - obj._last_processed), 0),
      Max(elapsed_since_last, MinElapsed)>>

\* a content producer returns the line of fields f
rendered(obj, f) == Outcome(obj, "none", FormatBar(f), 1, f)

\* the bar of _generate_bar: length - 1 '=' and a '>' in barlen columns
bar_s(barlen, length) ==
    IF length = 0 THEN Rep(" ", barlen)
    ELSE Rep("=", length - 1) \o <<">">> \o Rep(" ", barlen - length)

\* `eta = remaining / speed` formatted, for a speed of speednum/elapsed
eta_of(speednum, remaining, elapsed) ==
    IF speednum > 0
    THEN humantime(remaining * elapsed, speednum, TRUE)
    ELSE Ok(<<>>)

\* eta_s of _generate_bar with "ETA " and the duration whatever the speed
eta_text_always_duration(speednum, eta) == <<"E", "T", "A", " ">> \o eta.val

\* eta_s of _generate_bar
eta_text(speednum, eta) ==
    IF speednum > 0
    THEN <<"E", "T", "A", " ">> \o eta.val
    ELSE <<"E", "T", "A", " ", "u", "n", "k", "n", "o", "w", "n">>

\* lines 474-497 of _generate_bar: the first formatter that raises ends the
\* call, otherwise the six fields are formatted
render_bar(obj1, speednum, processed_s, elapsed_s, speed_s, percent_s, bar, eta) ==
    IF processed_s.err # "none"
    THEN Outcome(obj1, processed_s.err, <<>>, 1, <<>>)
    ELSE IF elapsed_s.err # "none"
    THEN Outcome(obj1, elapsed_s.err, <<>>, 1, <<>>)
    ELSE IF speed_s.err # "none"
    THEN Outcome(obj1, speed_s.err, <<>>, 1, <<>>)
    ELSE IF eta.err # "none"
    THEN Outcome(obj1, eta.err, <<>>, 1, <<>>)
    ELSE rendered(obj1, Fields(processed_s.val, elapsed_s.val, speed_s.val,
                               bar, percent_s, eta_text(speednum, eta)))

\* ProgressBar._generate_bar at time t; the result carries the text in
\* `wrote`.  elapsed is in milliseconds, so the speed in bytes per second
\* is 1000 * (processed - preprocessed) / elapsed.
_generate_bar(obj, t) ==
    IF obj._finished
    THEN Outcome(obj, "RuntimeError", <<>>, 1, <<>>)
    ELSE IF ~HasAttr(obj, "speed_mode")
    THEN Outcome(obj, "AttributeError", <<>>, 1, <<>>)
    ELSE IF obj.speed_mode = "instant"
    THEN \* line 461 reads the local elapsed_since_last, never assigned
         Outcome(obj, "UnboundLocalError", <<>>, 1, <<>>)
    ELSE render_bar(
             SetAttr(SetAttr(obj, "_last", t),
                     "_last_processed", obj.processed),
             1000 * (obj.processed - obj.preprocessed),
             humansize_default(obj.processed, 1),
             pbar_humantime(t - obj.start),
             humansize_default(1000 * (obj.processed - obj.preprocessed),
                               Max(t - obj.start, MinElapsed)),
             Str((100 * obj.processed) \div obj.totalsize),
             bar_s(obj._barlen,
                   RoundHalfEven(obj._barlen * obj.processed, obj.totalsize)),
             eta_of(1000 * (obj.processed - obj.preprocessed),
                    obj.totalsize - obj.processed,
                    Max(t - obj.start, MinElapsed)))

\* lines 510-518 of _generate_finish_bar, the formatters' results given
render_finish_bar(obj, processed_s, elapsed_s, speed_s) ==
    IF processed_s.err # "none"
    THEN Outcome(obj, processed_s.err, <<>>, 1, <<>>)
    ELSE IF elapsed_s.err # "none"
    THEN Outcome(obj, elapsed_s.err, <<>>, 1, <<>>)
    ELSE IF speed_s.err # "none"
    THEN Outcome(obj, speed_s.err, <<>>, 1, <<>>)
    ELSE rendered(obj, Fields(processed_s.val, elapsed_s.val, speed_s.val,
                              Rep("=", obj._barlen - 1) \o <<">">>,
                              <<"1", "0", "0">>, Rep(" ", 11)))

\* ProgressBar._generate_finish_bar; the result carries the text in `wrote`
_generate_finish_bar(obj) ==
    render_finish_bar(
        obj,
        humansize_default(obj.totalsize, 1),
        pbar_humantime(obj.elapsed),
        humansize_default(1000 * (obj.totalsize - obj.preprocessed),
                          obj.elapsed))

\* `try: text = content(*args, **kwargs) / except TypeError: text = content`
\* the result carries the text in `wrote`
resolve(obj, t, content) ==
    IF content.tag = "str"
    THEN Outcome(obj, "none", content.text, 0, <<>>)
    ELSE IF content.tag = "fn"
    THEN Outcome(obj, "none", content.text, 1, <<>>)
    ELSE IF content.tag = "_generate_bar"
    THEN _generate_bar(obj, t)
    ELSE _generate_finish_bar(obj)

-----------------------------------------------------------------------------
(* zmwangx.pbar: the methods, as functions of the object and the clock     *)

\* the line cwarning writes to sys.stderr for autopbar: its text is not
\* modelled, only that it ends with a newline
WarningLine == <<"w", "a", "r", "n", "i", "n", "g", NL>>

\* autopbar() in a process whose stderr is a terminal or not (isatty) and
\* whose `ps -o state -p <pid>` has the outcome ps; val is the value
\* returned, wrote the lines written to sys.stderr
autopbar(isatty, ps) ==
    IF ~isatty
    THEN [err |-> "none", val |-> FALSE, wrote |-> <<>>]
    ELSE IF ps = "CalledProcessError"
    THEN [err |-> "none", val |-> TRUE, wrote |-> <<WarningLine>>]
    ELSE IF ps = "FileNotFoundError"
    THEN [err |-> "FileNotFoundError", val |-> <<>>, wrote |-> <<>>]
    ELSE IF ps # "S+"
    THEN [err |-> "none", val |-> FALSE, wrote |-> <<>>]
    ELSE [err |-> "none", val |-> TRUE, wrote |-> <<>>]

\* `if self.show_elapsed_time: text = "%s: " % self._humantime(...) + text`
elapsed_prefix(obj, t) ==
    IF obj.show_elapsed_time
    THEN pbar_humantime(t - obj.start).val \o <<":", " ">>
    ELSE <<>>

\* lines 170-175 of text, after content resolved to r
text_write(r, t) ==
    IF r.err # "none"
    THEN r
    ELSE Outcome(r.obj, "none",
                 << <<CR, EL>> \o elapsed_prefix(r.obj, t) \o r.wrote >>,
                 r.invoked, r.fields)

\* ProgressText.text(content, force=force) at time t
text(obj, t, content, force) ==
    IF obj._finished
    THEN Outcome(obj, "RuntimeError", <<>>, 0, <<>>)
    ELSE IF ~force /\ t - obj._last < obj.interval
    THEN Outcome(obj, "none", <<>>, 0, <<>>)
    ELSE text_write(resolve(obj, t, content), t)

\* ProgressText.__init__(interval, show_elapsed_time, init_text) at time t
ProgressText_init(t, interval, show_elapsed_time, init_text) ==
    text([start |-> t, interval |-> interval,
          show_elapsed_time |-> show_elapsed_time,
          _last |-> t, _finished |-> FALSE],
         t, StrContent(init_text), TRUE)

\* lines 219-231 of ProgressText.finish, after content resolved to r
finish_write(r, t) ==
    IF r.err # "none"
    THEN r
    ELSE Outcome(SetAttr(DelAttr(DelAttr(DelAttr(r.obj, "interval"),
                                         "show_elapsed_time"), "_last"),
                         "_finished", TRUE),
                 "none",
                 << <<CR, EL>> \o elapsed_prefix(r.obj, t) \o r.wrote,
                    <<NL>> >>,
                 r.invoked, r.fields)

\* ProgressText.finish with `self.elapsed = time.time() - self.start`, the
\* lower bound left out
ProgressText_finish_unfloored(obj, t, content) ==
    IF obj._finished
    THEN Outcome(obj, "RuntimeError", <<>>, 0, <<>>)
    ELSE finish_write(
             resolve(SetAttr(obj, "elapsed", t - obj.start), t, content),
             t)

\* ProgressText.finish(content) at time t
ProgressText_finish(obj, t, content) ==
    IF obj._finished
    THEN Outcome(obj, "RuntimeError", <<>>, 0, <<>>)
    ELSE finish_write(
             resolve(SetAttr(obj, "elapsed", Max(t - obj.start, MinElapsed)),
                     t, content),
             t)

\* the bar length with the fallback length taken whenever the terminal
\* width is unavailable
Barlen_fallback_when_unavailable(ncol) ==
    IF ncol = NoTerminal \/ ncol < MinColumns
    THEN FallbackBarlen
    ELSE ncol - ReservedColumns

\* the bar length for a terminal of ncol columns (NoTerminal: none)
Barlen(ncol) ==
    IF (IF ncol = NoTerminal THEN DefaultColumns ELSE ncol) >= MinColumns
    THEN (IF ncol = NoTerminal THEN DefaultColumns ELSE ncol)
         - ReservedColumns
    ELSE FallbackBarlen

\* the end of ProgressBar.__init__ with only the write of the forced redraw
\* of the bar, as if super().__init__ had written nothing
init_redraw_bar_only(r0, r1) ==
    IF r1.err # "none"
    THEN Outcome(NoObj, r1.err, <<>>, r1.invoked, <<>>)
    ELSE Outcome(r1.obj, "none", r1.wrote, r1.invoked, r1.fields)

\* the end of ProgressBar.__init__: r0 is the outcome of super().__init__,
\* r1 of the forced redraw; an exception leaves no object
init_redraw(r0, r1) ==
    IF r1.err # "none"
    THEN Outcome(NoObj, r1.err, r0.wrote, r1.invoked, <<>>)
    ELSE Outcome(r1.obj, "none", r0.wrote \o r1.wrote, r1.invoked, r1.fields)

\* lines 340-358 of ProgressBar.__init__, after super().__init__ gave r0
init_bar(r0, t, totalsize, preprocessed, speed_mode, ncol) ==
    init_redraw(r0,
                text(r0.obj @@ [totalsize |-> totalsize,
                                processed |-> preprocessed,
                                preprocessed |-> preprocessed,
                                speed_mode |-> speed_mode,
                                _last_processed |-> 0,
                                _barlen |-> Barlen(ncol)],
                     t, BarContent, TRUE))

\* ProgressBar.__init__ with the totalsize check moved after super().__init__
ProgressBar_init_late_check(t, totalsize, preprocessed, interval, speed_mode, ncol) ==
    IF totalsize <= 0
    THEN Outcome(NoObj, "ValueError",
                 ProgressText_init(t, interval, FALSE, <<>>).wrote, 0, <<>>)
    ELSE init_bar(ProgressText_init(t, interval, FALSE, <<>>), t, totalsize,
                  preprocessed, speed_mode, ncol)

\* ProgressBar.__init__(totalsize, preprocessed, interval, speed_mode) at
\* time t on a terminal of ncol columns
ProgressBar_init(t, totalsize, preprocessed, interval, speed_mode, ncol) ==
    IF totalsize <= 0
    THEN Outcome(NoObj, "ValueError", <<>>, 0, <<>>)
    ELSE init_bar(ProgressText_init(t, interval, FALSE, <<>>), t, totalsize,
                  preprocessed, speed_mode, ncol)

\* `if self.processed > self.totalsize: self.processed = self.totalsize`
Clamp(obj) ==
    IF obj.processed > obj.totalsize
    THEN SetAttr(obj, "processed", obj.totalsize)
    ELSE obj

\* update without its own `if self._finished` check
update_unguarded(obj, t, chunk_size) ==
    text(Clamp(SetAttr(obj, "processed", obj.processed + chunk_size)),
         t, BarContent, FALSE)

\* update with `self.processed = chunk_size` for `self.processed += chunk_size`
update_overwrite(obj, t, chunk_size) ==
    IF obj._finished
    THEN Outcome(obj, "RuntimeError", <<>>, 0, <<>>)
    ELSE text(Clamp(SetAttr(obj, "processed", chunk_size)),
              t, BarContent, FALSE)

\* ProgressBar.update(chunk_size) at time t
update(obj, t, chunk_size) ==
    IF obj._finished
    THEN Outcome(obj, "RuntimeError", <<>>, 0, <<>>)
    ELSE text(Clamp(SetAttr(obj, "processed", obj.processed + chunk_size)),
              t, BarContent, FALSE)

\* ProgressBar.force_update(processed_size) at time t
force_update(obj, t, processed_size) ==
    IF obj._finished
    THEN Outcome(obj, "RuntimeError", <<>>, 0, <<>>)
    ELSE text(Clamp(SetAttr(obj, "processed", processed_size)),
              t, BarContent, TRUE)

\* ProgressBar.finish() at time t
ProgressBar_finish(obj, t) ==
    IF obj._finished
    THEN Outcome(obj, "RuntimeError", <<>>, 0, <<>>)
    ELSE IF ~HasAttr(obj, "speed_mode")
    THEN Outcome(obj, "AttributeError", <<>>, 0, <<>>)
    ELSE IF ~HasAttr(obj, "_last_processed")
    THEN Outcome(DelAttr(obj, "speed_mode"), "AttributeError", <<>>, 0, <<>>)
    ELSE ProgressText_finish(
             DelAttr(DelAttr(obj, "speed_mode"), "_last_processed"),
             t, FinishBarContent)

-----------------------------------------------------------------------------
(* The inputs of the model.                                                *)

TotalSizes == {0 - SizeUnit, 0, MaxTotal * SizeUnit}

PreprocessedSizes == {k * SizeUnit : k \in -1..(MaxTotal + 1)}

ChunkSizes == {k * SizeUnit : k \in 0..MaxChunk}

ForcedSizes == {k * SizeUnit : k \in -1..(MaxTotal + 1)}

Intervals == {TickMs, 2 * TickMs}

SpeedModes == {"cumulative", "instant"}

Columns == {NoTerminal, MinColumns - 1, MinColumns + 1}

Contents == {StrContent(<<"a">>), FnContent(<<"b">>)}

InitTexts == {<<>>, <<"i">>}

FedCap == (MaxTotal + 2) * SizeUnit

FormatSizes ==
    {-1, 999, 1000, 1001, 1023, 1024, 1025}
    \cup {k * SizeUnit : k \in 0..MaxTotal}

FormatPrefixes == {"iec-i", "iec", "si", "kibi"}

FormatUnits == {<<"B">>, <<>>}

FormatSeconds ==
    {-1, 59, 60, 3599, 3600, 3661, 35999, 36000, 86400}
    \cup {k * TickMs : k \in 0..MaxTicks}

-----------------------------------------------------------------------------
(* The state machine: one reporter, its caller and the clock.              *)

Call(op, a) == [op |-> op, a |-> a]

NoArgs == [none |-> TRUE]

Ret(err, wrote, invoked, fields, val) ==
    [err |-> err, wrote |-> wrote, invoked |-> invoked, fields |-> fields,
     val |-> val]

NoRet == Ret("none", <<>>, 0, <<>>, <<>>)

NoFed == [clean |-> FALSE, sum |-> 0]

\* no call of _fileobj_hash is in progress
NoFrame == [pc |-> "none"]

\* a method call on the reporter returns (or raises) with outcome r
Returns(r) ==
    /\ self' = r.obj
    /\ ret' = Ret(r.err, r.wrote, r.invoked, r.fields, <<>>)
    /\ drawn' = IF r.wrote # <<>> THEN now ELSE drawn

Init ==
    /\ kind = "none"
    /\ self = NoObj
    /\ now = 0
    /\ call = Call("start", NoArgs)
    /\ ret = NoRet
    /\ fed = NoFed
    /\ drawn = 0
    /\ frame = NoFrame

\* time passes; the clock starts when the reporter is constructed
Tick ==
    /\ kind # "none"
    /\ now < MaxTicks * TickMs
    /\ now' = now + TickMs
    /\ call' = Call("tick", NoArgs)
    /\ ret' = NoRet
    /\ UNCHANGED <<kind, self, fed, drawn, frame>>

\* ProgressText(interval, show_elapsed_time, init_text)
NewProgressText(interval, show_elapsed_time, init_text) ==
    /\ kind = "none"
    /\ call' = Call("ProgressText",
                    [interval |-> interval,
                     show_elapsed_time |-> show_elapsed_time,
                     init_text |-> init_text])
    /\ Returns(ProgressText_init(now, interval, show_elapsed_time, init_text))
    /\ kind' = "text"
    /\ UNCHANGED <<now, fed, frame>>

\* the constructor of a bar returns (or raises) with outcome r
BarConstructed(r, preprocessed) ==
    /\ self' = r.obj
    /\ ret' = Ret(r.err, r.wrote, r.invoked, r.fields, <<>>)
    /\ kind' = IF r.err = "none" THEN "bar" ELSE "none"
    /\ fed' = IF r.err = "none"
              THEN [clean |-> TRUE, sum |-> preprocessed]
              ELSE fed
    /\ drawn' = IF r.err = "none" THEN now ELSE drawn

\* ProgressBar(totalsize, preprocessed, interval, speed_mode) on a terminal
\* of ncol columns
NewProgressBar(totalsize, preprocessed, interval, speed_mode, ncol) ==
    /\ kind = "none"
    /\ call' = Call("ProgressBar",
                    [totalsize |-> totalsize, preprocessed |-> preprocessed,
                     interval |-> interval, speed_mode |-> speed_mode,
                     ncol |-> ncol])
    /\ BarConstructed(ProgressBar_init(now, totalsize, preprocessed,
                                       interval, speed_mode, ncol),
                      preprocessed)
    /\ UNCHANGED <<now, frame>>

\* reporter.text(content, force=force)
DoText(content, force) ==
    /\ kind \in {"text", "bar"}
    /\ call' = Call("text", [content |-> content, force |-> force])
    /\ Returns(text(self, now, content, force))
    /\ UNCHANGED <<kind, now, fed, frame>>

\* bar.update(chunk_size)
DoUpdate(chunk_size) ==
    /\ kind = "bar"
    /\ (fed.clean /\ ~self._finished) => fed.sum + chunk_size <= FedCap
    /\ call' = Call("update", [chunk_size |-> chunk_size])
    /\ Returns(update(self, now, chunk_size))
    /\ fed' = IF fed.clean /\ ~self._finished
              THEN [fed EXCEPT !.sum = @ + chunk_size]
              ELSE fed
    /\ UNCHANGED <<kind, now, frame>>

\* bar.force_update(processed_size)
DoForceUpdate(processed_size) ==
    /\ kind = "bar"
    /\ call' = Call("force_update", [processed_size |-> processed_size])
    /\ Returns(force_update(self, now, processed_size))
    /\ fed' = IF self._finished THEN fed ELSE NoFed
    /\ UNCHANGED <<kind, now, frame>>

\* bar.finish()
DoFinishBar ==
    /\ kind = "bar"
    /\ call' = Call("finish", NoArgs)
    /\ Returns(ProgressBar_finish(self, now))
    /\ UNCHANGED <<kind, now, fed, frame>>

\* text_reporter.finish(content)
DoFinishText(content) ==
    /\ kind = "text"
    /\ call' = Call("finish", [content |-> content])
    /\ Returns(ProgressText_finish(self, now, content))
    /\ UNCHANGED <<kind, now, fed, frame>>

\* a formatter returns (or raises) with r
Formatted(r) == ret' = Ret(r.err, <<>>, 0, <<>>, r.val)

\* humansize(size, prefix, unit, space, numfmt), called on its own
CallHumansize(size, prefix, unit, space, numfmt) ==
    /\ kind = "none"
    /\ call' = Call("humansize",
                    [size |-> size, prefix |-> prefix, unit |-> unit,
                     space |-> space, numfmt |-> numfmt])
    /\ Formatted(humansize(size, 1, prefix, unit, space, numfmt))
    /\ UNCHANGED <<kind, self, now, fed, drawn, frame>>

\* humantime(seconds, ndigits=0, one_hour_digit), called on its own
CallHumantime(seconds, one_hour_digit) ==
    /\ kind = "none"
    /\ call' = Call("humantime",
                    [seconds |-> seconds, one_hour_digit |-> one_hour_digit])
    /\ Formatted(humantime(seconds, 1, one_hour_digit))
    /\ UNCHANGED <<kind, self, now, fed, drawn, frame>>

Next ==
    \/ Tick
    \/ \E i \in Intervals, e \in BOOLEAN, t \in InitTexts :
           NewProgressText(i, e, t)
    \/ \E T \in TotalSizes, p \in PreprocessedSizes, i \in Intervals,
          m \in SpeedModes, c \in Columns :
           NewProgressBar(T, p, i, m, c)
    \/ \E c \in Contents, f \in BOOLEAN : DoText(c, f)
    \/ \E c \in ChunkSizes : DoUpdate(c)
    \/ \E x \in ForcedSizes : DoForceUpdate(x)
    \/ DoFinishBar
    \/ \E c \in Contents : DoFinishText(c)

\* the formatters, called on their own
NextFormat ==
    \/ \E n \in FormatSizes, p \in FormatPrefixes, u \in FormatUnits,
          s \in BOOLEAN, f \in BOOLEAN :
           CallHumansize(n, p, u, s, f)
    \/ \E n \in FormatSeconds, o \in BOOLEAN : CallHumantime(n, o)

\* the reporter alone
Spec == Init /\ [][Next]_vars

\* the reporter and the formatters
SpecAll == Init /\ [][Next \/ NextFormat]_vars

-----------------------------------------------------------------------------
(* One call of a module-level function: the initial state holds the call   *)
(* to be made (the function, its arguments and, for autopbar, what the      *)
(* process finds in its environment), the one step makes it.               *)

\* the exponents e of the sizes m * multiplier^e / 100 given to humansize:
\* up to one prefix beyond the largest, Y
MaxScale == 9

\* the hours of the durations given to humantime
MaxHours == 100

\* the sizes are taken next to the values at which humansize changes its
\* format: m hundredths of a power of the multiplier
Mantissas ==
    {0, 100, 101, 999, 1000, 1001, 9990, 9999, 10000, 99900, 99950,
     100000, 102300, 102350}

\* the digits of ds * multiplier^e
RECURSIVE Times(_, _, _)
Times(ds, multiplier, e) ==
    IF e = 0 THEN ds ELSE Times(MulAdd(ds, multiplier, 0), multiplier, e - 1)

\* the digits of floor(m * multiplier^e / 100) + d
LongSize(m, multiplier, e, d) ==
    Strip(MulAdd(SubSeq(<<0, 0>> \o Times(DigitsOf(m), multiplier, e), 1,
                        Len(Times(DigitsOf(m), multiplier, e))),
                 1, d))

LongSizes ==
    {LongSize(m, multiplier, e, d) :
         m \in Mantissas, multiplier \in {1000, 1024}, e \in 0..MaxScale,
         d \in {0, 1}}

\* the unit and the space option of the calls of humansize: the byte after
\* a space, and neither as test_numfmt calls it
LongStyles ==
    {[unit |-> <<"B">>, space |-> TRUE], [unit |-> <<>>, space |-> FALSE]}

DurationHours == {0, 1, 9, 10, 24, 99, MaxHours}

DurationSeconds ==
    {3600 * h + 60 * m + s :
         h \in DurationHours, m \in {0, 1, 59}, s \in {0, 1, 59}}

\* what `ps -o state -p <pid>` does: it prints a state with or without the
\* '+' of a foreground process, exits with a nonzero status, or cannot be
\* run at all
PsOutcomes == {"S+", "S", "CalledProcessError", "FileNotFoundError"}

\* the calls to be made
PendingCalls ==
    {Call("pending", [fn |-> "humansize", digits |-> ds, prefix |-> p,
                      unit |-> y.unit, space |-> y.space, numfmt |-> f]) :
         ds \in LongSizes, p \in {"iec-i", "iec", "si"}, y \in LongStyles,
         f \in BOOLEAN}
    \cup {Call("pending", [fn |-> "humantime", seconds |-> n,
                           one_hour_digit |-> o]) :
              n \in DurationSeconds, o \in BOOLEAN}
    \cup {Call("pending", [fn |-> "autopbar", isatty |-> t, ps |-> o]) :
              t \in BOOLEAN, o \in PsOutcomes}

InitCall ==
    /\ kind = "none"
    /\ self = NoObj
    /\ now = 0
    /\ call \in PendingCalls
    /\ ret = NoRet
    /\ fed = NoFed
    /\ drawn = 0
    /\ frame = NoFrame

\* humansize(size, prefix, unit, space, numfmt) on an integer of any length
ApplyHumansize ==
    /\ call.op = "pending"
    /\ call.a.fn = "humansize"
    /\ call' = Call("humansize_decimal", call.a)
    /\ Formatted(humansize_decimal(call.a.digits, call.a.prefix, call.a.unit,
                                   call.a.space, call.a.numfmt))
    /\ UNCHANGED <<kind, self, now, fed, drawn, frame>>

\* humantime(seconds, ndigits=0, one_hour_digit) on a whole number of seconds
ApplyHumantime ==
    /\ call.op = "pending"
    /\ call.a.fn = "humantime"
    /\ call' = Call("humantime", call.a)
    /\ Formatted(humantime(call.a.seconds, 1, call.a.one_hour_digit))
    /\ UNCHANGED <<kind, self, now, fed, drawn, frame>>

\* autopbar() returns (or raises) with r
Probed(r) == ret' = Ret(r.err, r.wrote, 0, <<>>, r.val)

\* autopbar()
ApplyAutopbar ==
    /\ call.op = "pending"
    /\ call.a.fn = "autopbar"
    /\ call' = Call("autopbar", call.a)
    /\ Probed(autopbar(call.a.isatty, call.a.ps))
    /\ UNCHANGED <<kind, self, now, fed, drawn, frame>>

NextCall == ApplyHumansize \/ ApplyHumantime \/ ApplyAutopbar

\* one call of humansize, humantime or autopbar
SpecCall == InitCall /\ [][NextCall]_vars

-----------------------------------------------------------------------------

(* zmwangx.hash: _fileobj_hash reads a file object in chunks, hashes them   *)
(* and, when asked, drives a ProgressBar.  The initial state holds the call *)
(* to be made; a step is the part of the call up to the loop, one iteration *)
(* of the loop, or the part after it.  The digest is not modelled.          *)

\* total_size=None, and the None that _fileobj_size returns
NoSize == 0 - 1

\* the interval of a ProgressBar built without one: 1.0 s
DefaultInterval == 1000

\* _fileobj_size(fileobj) for a file object with size bytes left to read
_fileobj_size(size, seekable) == IF seekable THEN size ELSE NoSize

\* the bytes left in the file object, and the chunk_size argument
HashSizes ==
    {0, SizeUnit \div 2, SizeUnit, SizeUnit + SizeUnit \div 2,
     MaxTotal * SizeUnit}

HashChunkSizes == {SizeUnit \div 2, SizeUnit}

\* the calls _fileobj_hash(fileobj, chunk_size=..., show_progress_bar=...,
\* total_size=...) to be made: total_size is None or, as file_hash passes
\* it for a path, the size of the file
PendingHashes ==
    {[pc |-> "called", size |-> n, seekable |-> k, chunk_size |-> c,
      show_progress_bar |-> b, total_size |-> IF g THEN n ELSE NoSize,
      pos |-> 0, chunk |-> 0, updates |-> 0, reported |-> 0,
      finishes |-> 0] :
         n \in HashSizes, k \in BOOLEAN, c \in HashChunkSizes,
         b \in BOOLEAN, g \in BOOLEAN}

InitHash ==
    /\ kind = "none"
    /\ self = NoObj
    /\ now = 0
    /\ call = Call("start", NoArgs)
    /\ ret = NoRet
    /\ fed = NoFed
    /\ drawn = 0
    /\ frame \in PendingHashes

\* total_size after lines 69-70
HashTotal(f) ==
    IF f.show_progress_bar /\ f.total_size = NoSize
    THEN _fileobj_size(f.size, f.seekable)
    ELSE f.total_size

\* `pbar = zmwangx.pbar.ProgressBar(total_size)` returned or raised with r
HashBarBuilt(r, total) ==
    /\ BarConstructed(r, 0)
    /\ frame' = [frame EXCEPT !.pc = IF r.err = "none" THEN "loop"
                                     ELSE "raised",
                              !.total_size = total]

\* lines 69-77 of _fileobj_hash, on a terminal of ncol columns
HashStart(ncol) ==
    /\ frame.pc = "called"
    /\ IF frame.show_progress_bar /\ HashTotal(frame) # NoSize
       THEN /\ call' = Call("ProgressBar",
                            [totalsize |-> HashTotal(frame),
                             preprocessed |-> 0,
                             interval |-> DefaultInterval,
                             speed_mode |-> "cumulative", ncol |-> ncol])
            /\ HashBarBuilt(ProgressBar_init(now, HashTotal(frame), 0,
                                             DefaultInterval, "cumulative",
                                             ncol),
                            HashTotal(frame))
       ELSE /\ frame' = [frame EXCEPT !.pc = "loop",
                                      !.show_progress_bar = FALSE,
                                      !.total_size = HashTotal(frame)]
            /\ UNCHANGED <<kind, self, call, ret, fed, drawn>>
    /\ UNCHANGED now

\* `pbar.update(chunk_size)` returned or raised with r after a chunk of
\* length bytes was read
HashUpdated(r, length) ==
    /\ Returns(r)
    /\ fed' = [fed EXCEPT !.sum = @ + frame.chunk_size]
    /\ frame' = [frame EXCEPT !.pc = IF r.err = "none" THEN "loop"
                                     ELSE "raised",
                              !.pos = @ + length,
                              !.chunk = length,
                              !.updates = @ + 1,
                              !.reported = @ + frame.chunk_size]

\* one iteration of `for chunk in chunks(fileobj, chunk_size=chunk_size)`:
\* fileobj.read(chunk_size) returns what is left, at most chunk_size bytes
HashChunk ==
    /\ frame.pc = "loop"
    /\ frame.pos < frame.size
    /\ IF frame.show_progress_bar
       THEN /\ call' = Call("update", [chunk_size |-> frame.chunk_size])
            /\ HashUpdated(update(self, now, frame.chunk_size),
                           Min(frame.chunk_size, frame.size - frame.pos))
       ELSE /\ frame' = [frame EXCEPT
                             !.pos = @ + Min(frame.chunk_size,
                                             frame.size - frame.pos),
                             !.chunk = Min(frame.chunk_size,
                                           frame.size - frame.pos)]
            /\ UNCHANGED <<self, call, ret, fed, drawn>>
    /\ UNCHANGED <<kind, now>>

\* `pbar.finish()` returned or raised with r
HashFinished(r) ==
    /\ Returns(r)
    /\ frame' = [frame EXCEPT !.pc = IF r.err = "none" THEN "done"
                                     ELSE "raised",
                              !.finishes = @ + 1]

\* the end of the loop (fileobj.read returns nothing) and lines 83-86
HashEnd ==
    /\ frame.pc = "loop"
    /\ frame.pos = frame.size
    /\ IF frame.show_progress_bar
       THEN /\ call' = Call("finish", NoArgs)
            /\ HashFinished(ProgressBar_finish(self, now))
       ELSE /\ frame' = [frame EXCEPT !.pc = "done"]
            /\ UNCHANGED <<self, call, ret, drawn>>
    /\ UNCHANGED <<kind, now, fed>>

NextHash ==
    \/ Tick
    \/ \E c \in Columns : HashStart(c)
    \/ HashChunk
    \/ HashEnd

\* one call of _fileobj_hash and the clock
SpecHash == InitHash /\ [][NextHash]_vars

-----------------------------------------------------------------------------

(* humantime on durations that are not whole numbers of seconds: the        *)
(* initial state holds the call to be made, the one step applies it.        *)

\* the seconds of the durations, in milliseconds, next to the values at
\* which the rounding of the seconds changes
SecondMillis ==
    {0, 1, 499, 500, 501, 1500, 2500, 58500, 59499, 59500, 59600, 59999}

\* the durations given to humantime, in milliseconds
DurationMillis ==
    {1000 * (3600 * h + 60 * m) + t :
         h \in DurationHours, m \in {0, 1, 59}, t \in SecondMillis}

\* the calls humantime(millis / 1000.0, ndigits=0, one_hour_digit) to be made
PendingTimes ==
    {Call("pending", [fn |-> "humantime", millis |-> n,
                      one_hour_digit |-> o]) :
         n \in DurationMillis, o \in BOOLEAN}

InitTime ==
    /\ kind = "none"
    /\ self = NoObj
    /\ now = 0
    /\ call \in PendingTimes
    /\ ret = NoRet
    /\ fed = NoFed
    /\ drawn = 0
    /\ frame = NoFrame

\* humantime(seconds, ndigits=0, one_hour_digit) on a float
ApplyHumantimeFloat ==
    /\ call.op = "pending"
    /\ call' = Call("humantime", call.a)
    /\ Formatted(humantime(call.a.millis, 1000, call.a.one_hour_digit))
    /\ UNCHANGED <<kind, self, now, fed, drawn, frame>>

\* one call of humantime on a float
SpecTime == InitTime /\ [][ApplyHumantimeFloat]_vars

-----------------------------------------------------------------------------

(* Vocabulary of the properties.                                           *)

\* a reporter exists and finish has not completed on it
Active == kind # "none" /\ ~self._finished

\* finish has completed on the reporter
Finished == kind # "none" /\ self._finished

\* the call that has just returned was a method call on the reporter
MethodCall(c) == c.op \in {"text", "update", "force_update", "finish"}

\* the call that has just returned asked for a redraw without forcing it
NonForced(c) == c.op = "update" \/ (c.op = "text" /\ ~c.a.force)

-----------------------------------------------------------------------------
(* C1 *)

\* C1: once finish has completed the session is Finished forever: every
\* later call to text, update, force_update or finish raises RuntimeError,
\* writes nothing to the terminal, invokes no content producer and changes
\* no attribute of the session.
C1_FinishedForever ==
    [][Finished =>
          /\ self' = self
          /\ kind' = kind
          /\ MethodCall(call') =>
                 /\ ret'.err = "RuntimeError"
                 /\ ret'.wrote = <<>>
                 /\ ret'.invoked = 0]_vars

\* a finished bar on which update has just been refused
C1_Witness ==
    /\ kind = "bar"
    /\ self._finished
    /\ call.op = "update"
    /\ call.a.chunk_size > 0
    /\ ret.err = "RuntimeError"

-----------------------------------------------------------------------------
(* C2 *)

\* C2: for a bar built with total T and preprocessed p, after any sequence
\* of update(c_i) calls with c_i >= 0 and no force_update, processed is
\* min(T, p + c_1 + ... + c_k); in particular it never exceeds totalsize.
C2_ProcessedIsClampedSum ==
    (kind = "bar" /\ fed.clean) =>
        /\ self.processed = Min(self.totalsize, fed.sum)
        /\ self.processed <= self.totalsize

-----------------------------------------------------------------------------
(* C3 *)

\* C3: in every reachable state of an active ProgressBar,
\* 0 <= preprocessed <= processed <= totalsize.
C3_SizeInvariant ==
    (kind = "bar" /\ Active) =>
        /\ 0 <= self.preprocessed
        /\ self.preprocessed <= self.processed
        /\ self.processed <= self.totalsize

-----------------------------------------------------------------------------
(* C4 *)

\* the size argument of an update or force_update call
SizeArg(c) ==
    IF c.op = "update" THEN c.a.chunk_size ELSE c.a.processed_size

\* C4, as claimed: no update or force_update call leaves processed smaller
\* than it was before the call (stated for the calls that are given a
\* nonnegative size on a bar within its total, and that return).
C4_Monotone ==
    [][(/\ kind = "bar"
        /\ Active
        /\ self.processed <= self.totalsize
        /\ call'.op \in {"update", "force_update"}
        /\ SizeArg(call') >= 0
        /\ ret'.err = "none") =>
          self'.processed >= self.processed]_vars

\* C4, amended: no update call (with a nonnegative chunk size) leaves
\* processed smaller than it was, except to bring down to totalsize a
\* processed that was above it; force_update overwrites processed and may
\* lower it.
C4_UpdateNeverLowers ==
    [][(kind = "bar" /\ call'.op = "update" /\ call'.a.chunk_size >= 0) =>
          self'.processed >= Min(self.processed, self.totalsize)]_vars

\* an update call has raised processed above preprocessed
C4_Witness ==
    /\ kind = "bar"
    /\ Active
    /\ call.op = "update"
    /\ call.a.chunk_size > 0
    /\ fed.clean
    /\ self.processed = fed.sum
    /\ self.processed > self.preprocessed

-----------------------------------------------------------------------------
(* C5 *)

\* C5: a non-forced text/update call made while less than `interval` has
\* elapsed since the last redraw writes nothing, does not invoke the
\* content producer and does not change the last-redraw timestamp.
C5_ThrottledIsNoOp ==
    [][(Active /\ NonForced(call') /\ now - drawn < self.interval) =>
          /\ ret'.wrote = <<>>
          /\ ret'.invoked = 0
          /\ self'._last = self._last]_vars

-----------------------------------------------------------------------------
(* C6 *)

\* C6: every redraw of a reporter, forced or not, on a ProgressText as on a
\* ProgressBar, advances the last-redraw timestamp to the time of the
\* redraw.
C6_RedrawAdvancesLast ==
    (Active /\ MethodCall(call) /\ ret.wrote # <<>>) => self._last = now

-----------------------------------------------------------------------------
(* C7 *)

\* C7: with speed_mode = "instant" every redraw of a bar, the initial one
\* of the constructor included, renders the speed (processed - processed at
\* the last redraw) / (time since the last redraw), at least zero.
C7_InstantSpeedRendered ==
    (/\ call.op = "ProgressBar"
     /\ call.a.speed_mode = "instant"
     /\ call.a.totalsize > 0
     /\ call.a.preprocessed >= 0) =>
        /\ ret.err = "none"
        /\ ret.fields # <<>>
        /\ LET speed == InstantSpeed([processed |-> call.a.preprocessed,
                                      _last_processed |-> 0], 0)
           IN  ret.fields.speed_s = humansize_default(speed[1], speed[2]).val

-----------------------------------------------------------------------------
(* C8 *)

\* C8: invalid arguments are surfaced as ValueError and never clamped:
\* humansize raises for size < 0 and for a prefix outside {iec-i, iec, si},
\* humantime raises for seconds < 0, and the ProgressBar constructor raises
\* for totalsize <= 0 before it creates a session or writes anything.
C8_InvalidArgument ==
    /\ (call.op = "humansize"
        /\ (call.a.size < 0 \/ call.a.prefix \notin {"iec-i", "iec", "si"}))
           => (ret.err = "ValueError" /\ ret.val = <<>>)
    /\ (call.op = "humantime" /\ call.a.seconds < 0)
           => (ret.err = "ValueError" /\ ret.val = <<>>)
    /\ (call.op = "ProgressBar" /\ call.a.totalsize <= 0)
           => /\ ret.err = "ValueError"
              /\ ret.wrote = <<>>
              /\ ret.invoked = 0
              /\ kind = "none"
              /\ self = NoObj

\* the constructor has just refused a total size of zero
C8_Witness ==
    /\ call.op = "ProgressBar"
    /\ call.a.totalsize = 0
    /\ call.a.preprocessed = 0
    /\ ret.err = "ValueError"

-----------------------------------------------------------------------------
(* C9 *)

\* C9: force_update(x) on an active bar sets processed to min(x, totalsize)
\* and always redraws, whatever the time since the last redraw.
C9_ForceUpdateRedraws ==
    (/\ kind = "bar"
     /\ Active
     /\ HasAttr(self, "speed_mode")
     /\ call.op = "force_update"
     /\ call.a.processed_size >= 0) =>
        /\ self.processed = Min(call.a.processed_size, self.totalsize)
        /\ ret.err = "none"
        /\ Len(ret.wrote) = 1

-----------------------------------------------------------------------------
(* C10 *)

\* C10: finish on an active bar emits a final line whose percentage is 100,
\* whose bar is barlen - 1 '=' and one '>', whose ETA is 11 spaces and whose
\* size is the formatted totalsize, whatever calls preceded it.
C10_FinishLine ==
    [][(kind = "bar" /\ Active /\ HasAttr(self, "speed_mode")
        /\ call'.op = "finish") =>
          /\ ret'.err = "none"
          /\ ret'.fields # <<>>
          /\ ret'.fields.percent_s = <<"1", "0", "0">>
          /\ ret'.fields.bar_s = Rep("=", self._barlen - 1) \o <<">">>
          /\ ret'.fields.eta_s = Rep(" ", 11)
          /\ ret'.fields.processed_s
                 = humansize_default(self.totalsize, 1).val
          /\ ret'.wrote = << <<CR, EL>> \o FormatBar(ret'.fields), <<NL>> >>
       ]_vars

-----------------------------------------------------------------------------
(* C11 *)

\* the attributes the documentation leaves readable on a finished session
\* (_finished is the private flag that records that finish was called)
ReadableAfterFinish ==
    IF kind = "text"
    THEN {"start", "elapsed", "_finished"}
    ELSE {"totalsize", "start", "elapsed", "_finished"}

\* C11: after finish a session keeps only its readable attributes: start
\* and elapsed on a ProgressText; totalsize, start and elapsed on a
\* ProgressBar, where processed, interval, speed_mode, _last,
\* _last_processed and _barlen are no longer available.
C11_OnlyReadableRemain ==
    Finished => DOMAIN self = ReadableAfterFinish

-----------------------------------------------------------------------------
(* C12 *)

\* the characters of a chunk written to the terminal
Chars(w) == {w[i] : i \in 1..Len(w)}

\* a chunk that is carriage return + clear-to-end-of-line + text, with no
\* newline in it
IsRedraw(w) == Len(w) >= 2 /\ w[1] = CR /\ w[2] = EL /\ NL \notin Chars(w)

\* C12: while a session is Active every write of the reporter is carriage
\* return + clear-to-end-of-line + text with no trailing newline; exactly
\* one newline is written per session, by finish, and it is the last
\* character the reporter ever writes.
C12_OneFinalNewline ==
    [][/\ (call'.op # "finish") =>
              \A i \in 1..Len(ret'.wrote) : IsRedraw(ret'.wrote[i])
       /\ (Active /\ call'.op = "finish") =>
              /\ Len(ret'.wrote) = 2
              /\ IsRedraw(ret'.wrote[1])
              /\ ret'.wrote[2] = <<NL>>
              /\ Finished'
       /\ Finished => ret'.wrote = <<>>]_vars

-----------------------------------------------------------------------------
(* C13 *)

\* one step of the long division by m: the digit d is brought down after
\* the quotient q and the remainder r of the digits before it
LongDivStep(prev, d, m) ==
    [q |-> prev.q \o <<(prev.r * 10 + d) \div m>>, r |-> (prev.r * 10 + d) % m,
     exact |-> prev.exact]

\* the long division of the integer of digits ds by m, two digits at a time
RECURSIVE LongDiv(_, _, _)
LongDiv(ds, m, exact) ==
    IF ds = <<>> THEN [q |-> <<>>, r |-> 0, exact |-> exact]
    ELSE IF Len(ds) = 1
    THEN LongDivStep([q |-> <<>>, r |-> 0, exact |-> exact], ds[1], m)
    ELSE LongDivStep(LongDivStep(LongDiv(SubSeq(ds, 1, Len(ds) - 2), m, exact),
                                 ds[Len(ds) - 1], m),
                     ds[Len(ds)], m)

\* n / multiplier^k for the integer n of digits ds, by k long divisions:
\* the digits q of its integer part, and whether it is an integer
RECURSIVE ExactQuotient(_, _, _)
ExactShift(x, multiplier, k) ==
    ExactQuotient([q |-> Strip(x.q), exact |-> x.exact /\ x.r = 0],
                  multiplier, k - 1)

ExactQuotient(x, multiplier, k) ==
    IF k = 0 THEN x ELSE ExactShift(LongDiv(x.q, multiplier, x.exact), multiplier, k)

\* what is above an exact quotient that is not an integer
ExactAbove(x) == IF x.exact THEN x.q ELSE Strip(MulAdd(x.q, 1, 1))

\* the smallest multiple of 10^-nd that is >= n / multiplier^k, in units
\* of 10^-nd
ExactCeiling(ds, multiplier, k, nd) ==
    ExactAbove(ExactQuotient([q |-> Strip(ds \o [i \in 1..nd |-> 0]),
                              exact |-> TRUE], multiplier, k))

\* n / multiplier^k < multiplier
ExactBelow(x, multiplier) == Len(x.q) <= 4 /\ ToInt(x.q) < multiplier

\* the call that has just returned is humansize on a nonnegative integer
\* and it returned a string
HumansizeReturned == call.op = "humansize_decimal" /\ ret.err = "none"

\* what humansize picked in the call that has just returned
LastPicked == humansize_picked(call.a.digits, call.a.prefix, call.a.numfmt)

\* C13: for every nonnegative integer n, prefix system and mode, the
\* numeric part humansize prints at its chosen scale k with d fractional
\* digits is the exact ceiling of n / divisor^k to d digits, computed
\* without precision loss, so the printed value never understates n.
C13_ExactCeiling ==
    HumansizeReturned =>
        ret.val = humansize_text(
                      Picked(LastPicked.k, LastPicked.nd,
                             ExactCeiling(call.a.digits,
                                          Multiplier(call.a.prefix),
                                          LastPicked.k, LastPicked.nd)),
                      call.a.prefix, call.a.unit, call.a.space)

-----------------------------------------------------------------------------
(* C14 *)

IsNumeric(ch) ==
    ch \in {"0", "1", "2", "3", "4", "5", "6", "7", "8", "9", "."}

\* the numeric part of a string humansize returned
NumericText(val) == SelectSeq(val, IsNumeric)

\* the ways humansize can write the multiplier: "1000", "1000.0", "1000.00"
DivisorTexts(multiplier) ==
    {FixedDigits(DigitsOf(multiplier * Pow(10, nd)), nd) : nd \in 0..2}

\* the number of divisions by the multiplier that bring the integer of
\* digits ds below the multiplier, at most k = the number of prefixes
RECURSIVE NaturalScale(_, _, _)
NaturalScale(ds, multiplier, k) ==
    IF \/ k = 8
       \/ ExactBelow(ExactQuotient([q |-> Strip(ds), exact |-> TRUE],
                                   multiplier, k), multiplier)
    THEN k
    ELSE NaturalScale(ds, multiplier, k + 1)

\* C14, as claimed: for every n >= 0, in both modes, the output of
\* humansize never has a numeric part equal to the divisor, at any prefix.
C14_NeverDivisor ==
    HumansizeReturned =>
        NumericText(ret.val) \notin DivisorTexts(Multiplier(call.a.prefix))

\* humansize printed the prefix of index picked for a size of natural
\* scale k: below the largest prefix the numeric part is not the divisor,
\* and a size that rounds up to the divisor at its scale is printed as 1.00
\* (1.0 in coreutils mode) with the next prefix
Escalates(picked, k, multiplier) ==
    /\ picked < 8 => NumericText(ret.val) \notin DivisorTexts(multiplier)
    /\ (/\ 1 <= k
        /\ k < 8
        /\ ExactCeiling(call.a.digits, multiplier, k, 0)
               = DigitsOf(multiplier)) =>
           ret.val = humansize_text(
                         Picked(k + 1,
                                IF call.a.numfmt THEN 1 ELSE 2,
                                IF call.a.numfmt THEN <<1, 0>>
                                ELSE <<1, 0, 0>>),
                         call.a.prefix, call.a.unit, call.a.space)

\* C14, amended: an output with a prefix below the largest never has a
\* numeric part equal to the divisor, because a size that rounds up to the
\* divisor at a scale below the largest is printed as 1.00 (1.0 in
\* coreutils mode) with the next prefix; at the largest prefix, where
\* there is no next one, the divisor is emitted.
C14_EscalatesBelowLargest ==
    HumansizeReturned =>
        Escalates(LastPicked.k,
                  NaturalScale(call.a.digits, Multiplier(call.a.prefix), 0),
                  Multiplier(call.a.prefix))

\* 999500 bytes, 999.5K, has been printed as 1.00M
C14_Witness ==
    /\ HumansizeReturned
    /\ call.a.digits = <<9, 9, 9, 5, 0, 0>>
    /\ call.a.prefix = "si"
    /\ ~call.a.numfmt
    /\ NumericText(ret.val) = <<"1", ".", "0", "0">>
    /\ LastPicked.k = 2

-----------------------------------------------------------------------------
(* C15 *)

\* the sizes test_numfmt compares with numfmt(1) have at most 18 digits
TestedDigits == 18

\* what the reference prints for the integer of digits ds at its scale
\* k >= 1, r1 and r0 being its value there rounded up to one fractional
\* digit (in tenths) and to a whole number
NumfmtAtScale(k, r1, r0, prefix) ==
    IF ToInt(r1) < 100
    THEN FixedDigits(r1, 1) \o PREFIXES[prefix][k]
    ELSE IF ToInt(r0) = Multiplier(prefix)
    THEN <<"1", ".", "0">> \o PREFIXES[prefix][k + 1]
    ELSE FixedDigits(r0, 0) \o PREFIXES[prefix][k]

\* the reference rule of `numfmt --to=<prefix>` for the integer of digits
\* ds, of natural scale k: the bare integer below the divisor, else
\* NumfmtAtScale
NumfmtReferenceAt(ds, k, prefix) ==
    IF k = 0
    THEN FixedDigits(Strip(ds), 0)
    ELSE NumfmtAtScale(k, ExactCeiling(ds, Multiplier(prefix), k, 1),
                       ExactCeiling(ds, Multiplier(prefix), k, 0), prefix)

NumfmtReference(ds, prefix) ==
    NumfmtReferenceAt(ds, NaturalScale(ds, Multiplier(prefix), 0), prefix)

\* the call that has just returned was made as test_numfmt makes it, on a
\* size of the tested range
NumfmtTested ==
    /\ HumansizeReturned
    /\ call.a.numfmt
    /\ call.a.unit = <<>>
    /\ ~call.a.space
    /\ call.a.prefix \in {"si", "iec"}
    /\ Len(call.a.digits) <= TestedDigits

-----------------------------------------------------------------------------
(* C16 *)

\* the call that has just returned formatted a size >= divisor in default
\* mode
DefaultAtScale ==
    /\ HumansizeReturned
    /\ ~call.a.numfmt
    /\ NaturalScale(call.a.digits, Multiplier(call.a.prefix), 0) >= 1

\* x.xx below 10, xx.x below 100, a whole number of three digits or more
\* otherwise; p is what humansize picked
ThreeFigures(p) ==
    \/ p.nd = 2 /\ Len(p.scaled) = 3
    \/ p.nd = 1 /\ Len(p.scaled) = 3
    \/ p.nd = 0 /\ Len(p.scaled) >= 3

\* the numeric part of the string returned is the number p
Printed(p) == NumericText(ret.val) = FixedDigits(p.scaled, p.nd)

PrintedThreeFigures(p) == Printed(p) /\ ThreeFigures(p)

\* as ThreeFigures, or one fractional digit after four or more digits at
\* the largest prefix
PrintedThreeFiguresOrLargest(p) ==
    /\ Printed(p)
    /\ \/ ThreeFigures(p)
       \/ p.k = 8 /\ p.nd = 1 /\ Len(p.scaled) >= 5

\* C16, as claimed: in default mode, for every n >= divisor and every
\* prefix system, the numeric part has at least three significant figures:
\* two fractional digits when the rounded value is < 10, one when it is
\* < 100, and a whole number of at least three digits otherwise.
C16_ThreeFigures ==
    DefaultAtScale => PrintedThreeFigures(LastPicked)

\* C16, amended: as claimed, except that a size that reaches the divisor at
\* the largest prefix is printed with one fractional digit after four or
\* more digits.
C16_ThreeFiguresOrLargest ==
    DefaultAtScale => PrintedThreeFiguresOrLargest(LastPicked)

\* 100000 bytes have been printed as the whole number 100 with K
C16_Witness ==
    /\ DefaultAtScale
    /\ call.a.prefix = "si"
    /\ call.a.digits = <<1, 0, 0, 0, 0, 0>>
    /\ NumericText(ret.val) = <<"1", "0", "0">>

-----------------------------------------------------------------------------
(* C17 *)

\* a <= b for two nonnegative integers given by their digits
DigitsLeq(a, b) ==
    \/ Len(Strip(a)) < Len(Strip(b))
    \/ /\ Len(Strip(a)) = Len(Strip(b))
       /\ \/ Strip(a) = Strip(b)
          \/ \E i \in 1..Len(Strip(a)) :
                 /\ Strip(a)[i] < Strip(b)[i]
                 /\ \A j \in 1..(i - 1) : Strip(a)[j] = Strip(b)[j]

\* the magnitude that the output p represents, numeric part times
\* multiplier^k, in hundredths
Magnitude(p, multiplier) ==
    Times(p.scaled \o [i \in 1..(2 - p.nd) |-> 0], multiplier, p.k)

\* the numeric part of the output p, in hundredths
Hundredths(p) == p.scaled \o [i \in 1..(2 - p.nd) |-> 0]

\* what humansize picks for n + 1, n being the size of the call that has
\* just returned, with the same prefix system and mode
NextPicked ==
    humansize_picked(MulAdd(call.a.digits, 1, 1), call.a.prefix,
                     call.a.numfmt)

\* p and q being what humansize picks for n, as printed, and for n + 1: q
\* is not below p
NotBelow(p, q, multiplier) ==
    /\ Printed(p)
    /\ p.k = q.k => DigitsLeq(Hundredths(p), Hundredths(q))
    /\ DigitsLeq(Magnitude(p, multiplier), Magnitude(q, multiplier))

\* C17: for every n >= 0, prefix system and mode, if n and n + 1 are
\* formatted with the same prefix label the numeric part printed for n + 1
\* is not smaller than the one printed for n, and across a prefix change
\* the represented magnitude (numeric part times divisor^k) does not
\* decrease.
C17_Monotone ==
    HumansizeReturned =>
        NotBelow(LastPicked, NextPicked, Multiplier(call.a.prefix))

\* 999000 bytes have been printed with K, and 999001 bytes are with M
C17_Witness ==
    /\ HumansizeReturned
    /\ call.a.prefix = "si"
    /\ ~call.a.numfmt
    /\ call.a.digits = <<9, 9, 9, 0, 0, 0>>
    /\ NumericText(ret.val) = <<"9", "9", "9">>
    /\ LastPicked.k = 1
    /\ NextPicked.k = 2

-----------------------------------------------------------------------------
(* C18 *)

\* the call that has just returned is humantime on a whole nonnegative
\* number of seconds, and it returned a string
HumantimeReturned ==
    call.op = "humantime" /\ call.a.seconds >= 0 /\ ret.err = "none"

\* the text of a field of HH:MM:SS: the characters of val before its first
\* colon (Field 1), between its colons (Field 2), after its last (Field 3)
Colons(val) == {i \in 1..Len(val) : val[i] = ":"}

FirstColon(val) == CHOOSE i \in Colons(val) : \A j \in Colons(val) : i <= j

LastColon(val) == CHOOSE i \in Colons(val) : \A j \in Colons(val) : j <= i

HoursField(val) == SubSeq(val, 1, FirstColon(val) - 1)

MinutesField(val) == SubSeq(val, FirstColon(val) + 1, LastColon(val) - 1)

SecondsField(val) == SubSeq(val, LastColon(val) + 1, Len(val))

\* the number written by a text of decimal digits
RECURSIVE Value(_)
Value(txt) ==
    IF txt = <<>> THEN 0
    ELSE 10 * Value(SubSeq(txt, 1, Len(txt) - 1))
         + (CHOOSE d \in 0..9 : Digits[d + 1] = txt[Len(txt)])

\* C18: for every nonnegative integer number of seconds s, humantime(s) is
\* HH:MM:SS with HH = s div 3600, MM = (s div 60) mod 60 and SS = s mod 60,
\* minutes and seconds zero-padded to two digits, so that
\* 3600*HH + 60*MM + SS = s.
C18_HoursMinutesSeconds ==
    HumantimeReturned =>
        /\ Cardinality(Colons(ret.val)) = 2
        /\ Value(HoursField(ret.val)) = call.a.seconds \div 3600
        /\ Value(MinutesField(ret.val)) = (call.a.seconds \div 60) % 60
        /\ Value(SecondsField(ret.val)) = call.a.seconds % 60
        /\ Len(MinutesField(ret.val)) = 2
        /\ Len(SecondsField(ret.val)) = 2
        /\ 3600 * Value(HoursField(ret.val))
           + 60 * Value(MinutesField(ret.val))
           + Value(SecondsField(ret.val)) = call.a.seconds

\* 3661 seconds have been formatted as 01:01:01
C18_Witness ==
    /\ HumantimeReturned
    /\ call.a.seconds = 3661
    /\ ~call.a.one_hour_digit
    /\ ret.val = <<"0", "1", ":", "0", "1", ":", "0", "1">>

-----------------------------------------------------------------------------
(* C19 *)

\* what humantime returns for the same duration with the other value of
\* one_hour_digit
OtherFlag ==
    humantime(call.a.seconds, 1, ~call.a.one_hour_digit).val

\* C19: hours are rendered as two zero-padded digits, except that with
\* one_hour_digit set and hours < 10 they are rendered as one digit; for
\* hours >= 10 the output with the flag is identical to the output without
\* it, and the flag never changes the minutes or seconds fields.
C19_OneHourDigit ==
    HumantimeReturned =>
        /\ HoursField(ret.val)
               = IF call.a.one_hour_digit /\ call.a.seconds \div 3600 < 10
                 THEN <<Digits[(call.a.seconds \div 3600) + 1]>>
                 ELSE ZeroPad(call.a.seconds \div 3600, 2)
        /\ call.a.seconds \div 3600 >= 10 => ret.val = OtherFlag
        /\ MinutesField(ret.val) = MinutesField(OtherFlag)
        /\ SecondsField(ret.val) = SecondsField(OtherFlag)

\* 86400 seconds have been formatted as 24:00:00 with one_hour_digit set
C19_Witness ==
    /\ HumantimeReturned
    /\ call.a.seconds = 86400
    /\ call.a.one_hour_digit
    /\ ret.val = <<"2", "4", ":", "0", "0", ":", "0", "0">>

-----------------------------------------------------------------------------
(* C20 *)

\* the call that has just ended is autopbar()
AutopbarCalled == call.op = "autopbar"

\* the process is established to be in the foreground of its terminal: ps
\* ran and printed a state with '+'
Foreground == call.a.ps = "S+"

\* the foreground query failed: ps exited with a nonzero status or could
\* not be run
QueryFailed == call.a.ps \in {"CalledProcessError", "FileNotFoundError"}

\* C20: autopbar returns True only if stderr is attached to a terminal and
\* the process is established to be in the foreground process group of
\* that terminal; a failed foreground query degrades to a warning plus a
\* conservative False result rather than propagating an error out of
\* autopbar.
C20_ConservativeProbe ==
    AutopbarCalled =>
        /\ (ret.err = "none" /\ ret.val = TRUE) =>
               (call.a.isatty /\ Foreground)
        /\ (call.a.isatty /\ QueryFailed) =>
               /\ ret.err = "none"
               /\ ret.val = FALSE
               /\ ret.wrote = <<WarningLine>>

-----------------------------------------------------------------------------
(* C21 *)

\* the constructor of a bar has just returned an object
BarBuilt == call.op = "ProgressBar" /\ ret.err = "none"

\* C21, as claimed: the bar width is computed once, at construction: it is
\* columns - 48 when the terminal reports at least 58 columns, and the
\* fallback width 10 when the terminal width is unavailable or the terminal
\* is narrower than 58 columns; no update, force_update or redraw changes it
\* afterwards.
C21_BarWidth ==
    [][/\ BarBuilt' =>
              self'._barlen =
                  IF call'.a.ncol # NoTerminal /\ call'.a.ncol >= 58
                  THEN call'.a.ncol - 48
                  ELSE 10
       /\ kind = "bar" => self'._barlen = self._barlen]_vars

\* C21, amended: when the terminal width is unavailable the constructor
\* assumes 80 columns, so the width is 80 - 48 = 32; it is columns - 48 for
\* a terminal of at least 58 columns and 10 for a narrower one, and no later
\* call changes it.
C21_BarWidthAssumes80 ==
    [][/\ BarBuilt' =>
              self'._barlen =
                  IF call'.a.ncol = NoTerminal THEN 80 - 48
                  ELSE IF call'.a.ncol >= 58 THEN call'.a.ncol - 48
                  ELSE 10
       /\ kind = "bar" => self'._barlen = self._barlen]_vars

\* a bar built where the terminal width is unavailable
C21_Witness ==
    /\ BarBuilt
    /\ call.a.ncol = NoTerminal
    /\ self._barlen = 32

-----------------------------------------------------------------------------
(* C22 *)

\* the constructor of a text reporter has just returned an object
TextBuilt == call.op = "ProgressText" /\ ret.err = "none"

\* the chunk a new ProgressText writes for its initial text
InitialText ==
    <<CR, EL>>
    \o (IF call.a.show_elapsed_time
        THEN pbar_humantime(0).val \o <<":", " ">>
        ELSE <<>>)
    \o call.a.init_text

\* C22, as claimed: constructing a reporter performs exactly one forced,
\* interval-ignoring redraw: a ProgressText writes its initial text once,
\* and a ProgressBar writes exactly one line (the initial bar) to the
\* terminal before its constructor returns.
C22_OneRedraw ==
    /\ TextBuilt => ret.wrote = <<InitialText>>
    /\ BarBuilt =>
           /\ ret.invoked = 1
           /\ ret.wrote = << <<CR, EL>> \o FormatBar(ret.fields) >>

\* C22, amended: a ProgressText writes its initial text once; a ProgressBar
\* whose constructor returns has redrawn twice, whatever the interval: the
\* inherited constructor writes an empty initial text, then the bar's own
\* constructor writes the initial bar, rendered once.
C22_BarRedrawsTwice ==
    /\ TextBuilt => ret.wrote = <<InitialText>>
    /\ BarBuilt =>
           /\ ret.invoked = 1
           /\ ret.wrote = << <<CR, EL>>, <<CR, EL>> \o FormatBar(ret.fields) >>

\* a bar built with the longer interval, its two writes made
C22_Witness ==
    /\ BarBuilt
    /\ call.a.interval = 2 * TickMs
    /\ Len(ret.wrote) = 2
    /\ ret.fields # <<>>

-----------------------------------------------------------------------------
(* C23 *)

\* the call that has just returned redrew the bar of an active ProgressBar
BarRedrawn ==
    /\ kind = "bar"
    /\ Active
    /\ call.op \in {"ProgressBar", "update", "force_update"}
    /\ ret.fields # <<>>

\* C23: in every redraw of an active ProgressBar the bar field is exactly
\* barWidth characters long: with fill = round(barWidth * processed /
\* totalsize), it is all spaces when fill = 0, and otherwise fill - 1 '='
\* characters, then exactly one '>', then barWidth - fill spaces.
C23_BarField ==
    BarRedrawn =>
        LET fill == RoundHalfEven(self._barlen * self.processed,
                                  self.totalsize)
        IN  /\ Len(ret.fields.bar_s) = self._barlen
            /\ ret.fields.bar_s =
                   IF fill = 0 THEN Rep(" ", self._barlen)
                   ELSE Rep("=", fill - 1) \o <<">">>
                        \o Rep(" ", self._barlen - fill)

-----------------------------------------------------------------------------
(* C24 *)

\* the cumulative speed of the bar in bytes per 1000 seconds, over the
\* elapsed time in milliseconds
SpeedNum == 1000 * (self.processed - self.preprocessed)

SpeedElapsed == Max(now - self.start, MinElapsed)

EtaUnknown == <<"E", "T", "A", " ", "u", "n", "k", "n", "o", "w", "n">>

\* C24: a redraw of an active ProgressBar shows "ETA unknown" exactly when
\* the current speed estimate is not positive, and otherwise "ETA " followed
\* by the formatted duration (totalsize - processed) / speed; in particular
\* the initial redraw of a Cumulative bar shows "ETA unknown", and a bar with
\* processed = totalsize and positive speed shows an ETA of 0:00:00.
C24_Eta ==
    BarRedrawn =>
        /\ (ret.fields.eta_s = EtaUnknown) <=> (SpeedNum <= 0)
        /\ SpeedNum > 0 =>
               ret.fields.eta_s =
                   <<"E", "T", "A", " ">>
                   \o humantime((self.totalsize - self.processed)
                                    * SpeedElapsed,
                                SpeedNum, TRUE).val
        /\ call.op = "ProgressBar" => ret.fields.eta_s = EtaUnknown
        /\ (self.processed = self.totalsize /\ SpeedNum > 0) =>
               ret.fields.eta_s
                   = <<"E", "T", "A", " ", "0", ":", "0", "0", ":", "0", "0">>

\* a redraw of a complete bar with a positive speed
C24_Witness ==
    /\ BarRedrawn
    /\ call.op = "update"
    /\ self.processed = self.totalsize
    /\ SpeedNum > 0
    /\ ret.fields.eta_s
           = <<"E", "T", "A", " ", "0", ":", "0", "0", ":", "0", "0">>

-----------------------------------------------------------------------------
(* C25 *)

\* finish has just completed on the reporter
FinishReturned == kind # "none" /\ call.op = "finish" /\ ret.err = "none"

\* C25: after finish, the recorded elapsed time equals max(time of finish -
\* start, 1 millisecond): it is never below 0.001 s, so the final speed
\* (totalsize - preprocessed) / elapsed computed by the completed-state
\* renderer never divides by zero.
C25_ElapsedFloor ==
    /\ (kind # "none" /\ HasAttr(self, "elapsed")) =>
           self.elapsed >= MinElapsed
    /\ FinishReturned =>
           /\ Finished
           /\ self.elapsed = Max(now - self.start, MinElapsed)
           /\ kind = "bar" =>
                  ret.fields.speed_s =
                      humansize_default(
                          1000 * (self.totalsize - self.preprocessed),
                          self.elapsed).val

\* a bar finished at the time it was built: the elapsed time is the bound
C25_Witness ==
    /\ FinishReturned
    /\ kind = "bar"
    /\ now = self.start
    /\ self.elapsed = MinElapsed
    /\ self.totalsize > self.preprocessed

-----------------------------------------------------------------------------
(* C26 *)

\* humansize returned for a size of natural scale k: the bare integer for
\* k = 0; otherwise the scan stopped at the k-th prefix and the prefix
\* printed is that one, or the next after a rounding escalation
ScannedTo(k) ==
    /\ k = 0 =>
           ret.val = FixedDigits(Strip(call.a.digits), 0)
                     \o (IF call.a.space THEN <<" ">> ELSE <<>>)
                     \o call.a.unit
    /\ k >= 1 =>
           /\ humansize_decimal_scan(Decimal(call.a.digits), 1,
                                     call.a.prefix) = k
           /\ LastPicked.k \in {k, Min(k + 1, 8)}

\* C26: for n below the divisor humansize prints the bare integer with no
\* prefix; otherwise the prefix it scans to (before any rounding
\* escalation) is the first label in K, M, G, T, P, E, Z, Y for which the
\* quotient n / divisor^k is below the divisor, and the last label (Y) when
\* no label qualifies.
C26_ScanToFirstFit ==
    HumansizeReturned =>
        ScannedTo(NaturalScale(call.a.digits, Multiplier(call.a.prefix), 0))

\* 1024^9 + 1 bytes: no label qualifies and Y is printed
C26_Witness ==
    /\ HumansizeReturned
    /\ call.a.prefix = "iec"
    /\ call.a.digits = LongSize(100, 1024, 9, 1)
    /\ humansize_decimal_scan(Decimal(call.a.digits), 1, "iec") = 8
    /\ LastPicked.k = 8

-----------------------------------------------------------------------------
(* C27 *)

\* the hashing loop has called pbar.update at least once
HashReported == frame.pc # "none" /\ frame.updates > 0

\* C27: when the progress bar is enabled, the hashing loop calls finish at
\* most once and only after the last chunk, and each update reports the size
\* in bytes of the chunk just read, so that the amounts reported sum to the
\* number of bytes read.
C27_ReportsBytesRead ==
    /\ frame.pc # "none" => frame.finishes <= 1
    /\ frame.pc # "none" /\ frame.finishes = 1 => frame.pos = frame.size
    /\ HashReported =>
          /\ frame.reported = frame.pos
          /\ call.op = "update" => call.a.chunk_size = frame.chunk

-----------------------------------------------------------------------------
(* C28 *)

\* the call that has just returned is humantime on a nonnegative float
HumantimeFloatReturned == call.op = "humantime" /\ ret.err = "none"

\* C28: for every nonnegative duration formatted with ndigits = 0, the
\* minutes field of what humantime returns is in 00..59 and the seconds
\* field is in 00..59: rounding the seconds never prints 60.
C28_ClockFields ==
    HumantimeFloatReturned =>
        /\ Len(MinutesField(ret.val)) = 2
        /\ Value(MinutesField(ret.val)) \in 0..59
        /\ Len(SecondsField(ret.val)) = 2
        /\ Value(SecondsField(ret.val)) \in 0..59

-----------------------------------------------------------------------------
(* C29 *)

\* the call being made is update or force_update with a nonnegative argument
NonnegativeUpdate(c) ==
    \/ c.op = "update" /\ c.a.chunk_size >= 0
    \/ c.op = "force_update" /\ c.a.processed_size >= 0

\* C29: on an active ProgressBar no update or force_update with a
\* nonnegative integer argument raises: the sizes and the speed handed to
\* humansize in a redraw are never negative.
C29_UpdatesNeverRaise ==
    [][(kind = "bar" /\ Active /\ NonnegativeUpdate(call')) =>
          ret'.err = "none"]_vars

-----------------------------------------------------------------------------
(* C30 *)

\* the session has all the attributes of an active ProgressBar
CompleteBar ==
    /\ HasAttr(self, "speed_mode")
    /\ HasAttr(self, "_last_processed")
    /\ ~HasAttr(self, "elapsed")

\* C30: ProgressBar.finish is all-or-nothing: either it completes and the
\* session is Finished, or it raises and the session is still a complete
\* active session; a session that is not marked Finished never lacks
\* speed_mode or _last_processed.
C30_FinishAllOrNothing ==
    /\ (kind = "bar" /\ Active) => CompleteBar
    /\ (kind = "bar" /\ call.op = "finish") =>
          IF ret.err = "none" THEN Finished ELSE CompleteBar \/ Finished

=============================================================================
